---------------------------- MODULE Spec2Model ----------------------------
(***************************************************************************)
(* A model of the fetch / retry / download logic of the 4CAT Webjutter     *)
(* extensions:                                                             *)
(*   - SearchWebjutter.webjutter_search_request                            *)
(*       (src/datasources/webjutter_search/search_webjutter.py)            *)
(*   - SearchWebjutter.get_items, in its two variants                      *)
(*       (src/datasources/webjutter/search_webjutter.py and                *)
(*        src/datasources/webjutter_search/search_webjutter.py)            *)
(*   - FourchanSearchImageDownloader, in its two variants                  *)
(*       (src/datasources/fourchan/download_4chan_images.py and            *)
(*        src/download_4chan_images.py)                                    *)
(* One behaviour runs one program; prog says which.                        *)
(***************************************************************************)
EXTENDS Integers, Sequences, FiniteSets, TLC

(* ------------------------------ bounds -------------------------------- *)

\* number of pages the modelled search server holds
MaxPages == 2

\* the sizes a page of the modelled server may have
ItemCounts == {0, 2, 3}

\* the values of the max_retries argument webjutter_search_request is called with
MaxRetriesArgs == {0, 1, 3, 6}

\* number of search URLs collected from the source dataset
NumUrls == 2

\* the largest value of the amount parameter
MaxAmount == 2

\* the largest record limit the pagination claims are read with
MaxRecords == 4

\* the number of chunks response.raw.read(1024) yields for one response body
PayloadChunks == 2

(* ---------------------------- program constants ----------------------- *)

\* `if count < 3`: the retries a search URL gets in the image downloader
MaxImageRetries == 3

\* SearchWebjutter.max_retries, the class attribute get_items reads
max_retries == 3

\* the default webjutter_search_request falls back to for max_retries < 1
DefaultMaxRetries == 3

\* the fixed wait after a Timeout or a ConnectionError
FixedWait == 2

\* the cap of the wait after an HTTP 429
RateLimitCap == 60

(* ------------------------------- state -------------------------------- *)

VARIABLES
    prog,          \* the program this behaviour runs
    interrupted,   \* self.interrupted, raised by the host at any moment
    \* --- webjutter_search_request
    rqPc,          \* "idle", "loop", "returned", "raised"
    rqMax,         \* max_retries after line 412
    rqRetries,     \* retries
    rqTrace,       \* history: the outcome of every request sent, in order
    rqSleeps,      \* history: the wait slept after each failed request
    rqExc,         \* the exception the call raised ("" when none)
    rqLate,        \* history: a request was sent while interrupted was raised
    \* --- get_items
    pages,         \* the server's pages: page i has pages[i].n items and, with pages[i].cur, the cursor i
    giPc,          \* "loop", "call", "returned", "error", "raised", "interrupted"
    results,       \* results
    retries,       \* retries
    has_more,      \* has_more
    search_after,  \* search_after: 0 is None, i is the cursor page i returned
    fetched,       \* history: the pages received, in the order received
    jobFinished,   \* self.job.finish() was called
    giWait,        \* history: <<k, w, o>>: the latest wait w, slept before attempt k of a page, after outcome o
    streak,        \* history: the failed page requests since the last page was received
    total_records, \* get_items: <<>> for "unknown", else <<the total last taken from a page>>
    giProgress,    \* get_items: <<>>, or <<numerator, denominator>> of the fraction last passed to update_progress
    \* --- FourchanSearchImageDownloader
    amount,        \* self.amount / amount, after a 0 was replaced by the configured maximum
    imPc,          \* "resolve", "attempt", "backoff", "download", "done", "interrupted", "off", or the
                   \* exception that ended the run: "ZeroDivisionError", "IndexError", "AttributeError"
    queue,         \* the search URLs still to be yielded (to be iterated, for cloudscraper)
    cur,           \* the search URL in hand: retried by cloudscraper, or waiting to be re-queued (0: none)
    retry_counts,  \* retry_counts
    filenames,     \* self.filenames: its keys (image URLs) in insertion order; the value of u is FilenameOf(u)
    dlQueue,       \* the download targets still to be yielded
    downloaded_files, \* downloaded_files
    failures,      \* failures
    metadata,      \* metadata: image URL -> success
    complete,      \* self.complete
    manifest,      \* the content of .metadata.json
    manifestWritten, \* .metadata.json was written
    resultCount,   \* the count the run finished with (-1: not finished)
    stagingRemoved, \* shutil.rmtree(self.staging_area) was run
    outcomes,      \* history: terminal outcomes per search URL
    attempts,      \* history: requests handled per search URL
    firstResp,     \* history: the class of the first response of each search URL not yet settled
    fatalRetried,  \* history: a search URL was requested again after a first response of class "fatal"
    limitOnly,     \* history: per search URL, every response so far said "limit exceeded" in a 200 body
    answered,      \* history: some request of the resolve phase was answered by the archive
    lastWait,      \* history: <<k, w>>: the wait w slept before attempt k of the latest retry
    lateDispatch,  \* history: a request was sent or queued by the processor while interrupted was raised
    progress,      \* the fraction last passed to update_progress, as <<numerator, denominator>>
    droppedTransient, \* history: the latest transient failure that was the final failure of a search URL
                   \* with retries left ("none": there was none)
    inflight,      \* history: per search URL, the requests submitted whose result was not yet consumed
    \* --- stream_url, the response hook of the download requests
    streams,       \* per download target: pc ("queued", "reading", "over"), resp (the response kind),
                   \* read (chunks read), wrote (chunks written), why (what ended the loop)
    files,         \* the staging area: filename -> the chunks appended, each tagged <<target, number>>
    wroteAfterFlag, \* history: a chunk was written in a pass that started with a flag raised
    \* --- WebjutterUpdater.work and get_options, which share webjutter_datasources.json
    configured,    \* webjutter-search.url, .user and .password are all set
    dsFile,        \* webjutter_datasources.json: "absent", "truncated" (opened with "w", the
                   \* dump not flushed yet) or "full"
    upPc,          \* the worker: "idle", "request", "store", "dump", "remove", "hung"
    remove_old,    \* work()'s local of that name
    upConf,        \* history: what the settings check of the latest cycle found
    upOverview,    \* history: what the overview request of the latest cycle came to
    upOld,         \* history: the file existed when the latest cycle began
    goPc,          \* get_options: "idle", "checked" (past exists(), before open()), "done"
    goResult,      \* what get_options came to: an error option, "options" or the exception raised
    \* --- validate_query
    vqPc,          \* "off", "start", "search" (the test search is running), "done"
    vqIn,          \* the query: q, ds (text and datasource non-empty), confirm (frontend-confirm)
    vqResp,        \* the JSON of the test search: <<>> (falsy) or <<total>>; <<-1>> before it
    vqResult       \* "returned" or the exception validate_query raised

rqVars == <<rqPc, rqMax, rqRetries, rqTrace, rqSleeps, rqExc, rqLate>>
giVars == <<pages, giPc, results, retries, has_more, search_after, fetched, jobFinished, giWait, streak, total_records, giProgress>>
loopVars == <<amount, imPc, queue, cur, retry_counts, filenames, dlQueue, downloaded_files, failures,
              metadata, complete, manifest, manifestWritten, resultCount, stagingRemoved, outcomes, attempts, firstResp, fatalRetried, limitOnly, answered,
              lastWait, lateDispatch, progress, inflight, droppedTransient>>
imVars == <<loopVars, streams, files, wroteAfterFlag>>
upVars == <<configured, dsFile, upPc, remove_old, upConf, upOverview, upOld, goPc, goResult>>
vqVars == <<vqPc, vqIn, vqResp, vqResult>>
vars == <<prog, interrupted, rqVars, giVars, imVars, upVars, vqVars>>

(* ------------------------------ helpers ------------------------------- *)

RECURSIVE Pow2(_)
Pow2(n) == IF n = 0 THEN 1 ELSE 2 * Pow2(n - 1)

Min(a, b) == IF a < b THEN a ELSE b

\* min(2 ** retries, 60)
RateLimitWait(r) == Min(Pow2(r), RateLimitCap)

\* the outcomes of one HTTP request to the Webjutter server
Transient == {"timeout", "connerr"}
RateLimited == {"429", "429msg"}
FatalClient == {"4xx", "4xxmsg"}
ReqOutcomes == {"ok", "badjson", "other", "5xx"} \cup Transient \cup RateLimited \cup FatalClient

\* the page the server sends for a request carrying the cursor c (0: no cursor).
\* Beyond the last page the server answers with an empty page.
PageAt(c) == IF c + 1 <= MaxPages THEN [idx |-> c + 1, n |-> pages[c + 1].n, cur |-> pages[c + 1].cur]
             ELSE [idx |-> c + 1, n |-> 0, cur |-> FALSE]

\* the items of page i, as the server sends them
ItemsOf(p) == [k \in 1..p.n |-> <<p.idx, k>>]

\* the cursor a page carries: its own index, or 0 (None) without cursor
CursorOf(p) == IF p.cur THEN p.idx ELSE 0


(* ------------------- webjutter_search_request -------------------------- *)

\* max_retries = 3 if max_retries < 1 else max_retries
EffectiveMaxRetries(m) == IF m < 1 THEN DefaultMaxRetries ELSE m

\* a variant of RetriesExhausted: gives up one failure early
RetriesExhaustedEarly(r, m) == r >= m

\* a variant of RetriesExhausted: gives up one failure late
RetriesExhaustedLate(r, m) == r > m + 1

\* if retries > max_retries: raise
RetriesExhausted(r, m) == r > m

\* the exceptions webjutter_search_request lets out for a request outcome that ends the call
RaisedFor(o) == CASE o \in {"429msg", "4xxmsg"} -> {"QueryParametersException"}
                  [] o \in {"4xx", "5xx"} -> {"HTTPError"}
                  [] o = "other" -> {"ConnectionError"}
                  \* raise JSONDecodeError(msg): the class takes (msg, doc, pos), so the
                  \* raise itself may end in a TypeError, depending on the requests version
                  [] o = "badjson" -> {"JSONDecodeError", "TypeError"}
                  [] OTHER -> {}

\* the call: argument checks passed, max_retries normalised, retries = 0
RequestStart(m) ==
    /\ rqPc' = "loop"
    /\ rqMax' = EffectiveMaxRetries(m)
    /\ rqRetries' = 0
    /\ rqTrace' = <<>>
    /\ rqSleeps' = <<>>
    /\ rqExc' = ""

\* webjutter_search_request called on its own (as validate_query does)
RequestCall ==
    /\ prog = "request"
    /\ rqPc = "idle"
    /\ \E m \in MaxRetriesArgs : RequestStart(m)
    /\ UNCHANGED <<prog, upVars, vqVars, interrupted, rqLate, giVars, imVars>>

\* one pass of `while retries <= max_retries`: one requests.post and its handling
RequestAttempt ==
    /\ rqPc = "loop"
    /\ rqRetries <= rqMax
    /\ \E o \in ReqOutcomes :
        /\ rqTrace' = Append(rqTrace, o)
        /\ rqLate' = (rqLate \/ interrupted)
        /\ streak' = (IF prog = "webjutter_search" /\ o # "ok" THEN streak + 1 ELSE streak)
        /\ UNCHANGED <<total_records, giProgress>>
        /\ \/ /\ o = "ok"
              \* raise_for_status passes, break; the response is truthy; return response.json()
              /\ rqPc' = "returned"
              /\ UNCHANGED <<rqRetries, rqSleeps, rqExc>>
           \/ /\ o \in Transient
              /\ rqRetries' = rqRetries + 1
              /\ IF RetriesExhausted(rqRetries + 1, rqMax)
                 THEN /\ rqPc' = "raised"
                      /\ rqExc' = (IF o = "timeout" THEN "Timeout" ELSE "ConnectionError")
                      /\ UNCHANGED rqSleeps
                 ELSE /\ rqSleeps' = Append(rqSleeps, FixedWait)
                      /\ UNCHANGED <<rqPc, rqExc>>
           \/ /\ o = "429"
              \* HTTPError with status 429: sleep, count, continue; once the loop
              \* condition fails the last response is the 429 one, which is falsy
              /\ rqSleeps' = Append(rqSleeps, RateLimitWait(rqRetries))
              /\ rqRetries' = rqRetries + 1
              /\ IF rqRetries + 1 <= rqMax
                 THEN UNCHANGED <<rqPc, rqExc>>
                 ELSE rqPc' = "raised" /\ rqExc' = "ConnectionError"
           \/ /\ RaisedFor(o) # {}
              /\ rqPc' = "raised"
              /\ rqExc' \in RaisedFor(o)
              /\ UNCHANGED <<rqRetries, rqSleeps>>
    /\ UNCHANGED <<prog, upVars, vqVars, interrupted, rqMax, pages, giPc, results, retries, has_more, search_after,
                   fetched, jobFinished, giWait, imVars>>

(* ----------------------------- get_items ------------------------------- *)

\* a variant of LoopGuard: gives up one failed fetch early
LoopGuardStrict == has_more /\ retries < max_retries

\* while has_more and retries <= self.max_retries
LoopGuard == has_more /\ retries <= max_retries

\* what the "total" field of a page can be: missing, or a number, which can be
\* smaller than the number of records received
Totals == {<<>>, <<1>>, <<100>>}

\* if total_records > 0 (and isinstance(total_records, int), src/datasources/webjutter)
TotalKnown(t) == t # <<>> /\ t[1] > 0

\* total_records = response_data.get("total", total_records), and, when the page has a
\* cursor, update_progress(len(results) / total_records) if the total is known
ReportProgress(p) ==
    \E t \in Totals :
        /\ total_records' = (IF t = <<>> THEN total_records ELSE t)
        /\ giProgress' = (IF CursorOf(p) # 0 /\ TotalKnown(total_records')
                          THEN <<Len(results) + p.n, total_records'[1]>> ELSE giProgress)

\* a variant of ReceivePage: the cursor of the page received is not kept
ReceivePageStale(p) ==
    /\ fetched' = Append(fetched, p.idx)
    /\ streak' = 0
    /\ IF p.n = 0
       THEN /\ giPc' = "returned"
            /\ jobFinished' = TRUE
            /\ UNCHANGED <<results, retries, has_more, search_after, total_records, giProgress>>
       ELSE /\ results' = results \o ItemsOf(p)
            /\ ReportProgress(p)
            /\ retries' = 0
            /\ has_more' = (CursorOf(p) # 0)
            /\ giPc' = "loop"
            /\ UNCHANGED <<jobFinished, search_after>>

\* a variant of ReceivePage: stops once MaxRecords records are accumulated
ReceivePageCapped(p) ==
    /\ fetched' = Append(fetched, p.idx)
    /\ streak' = 0
    /\ IF p.n = 0
       THEN /\ giPc' = "returned"
            /\ jobFinished' = TRUE
            /\ UNCHANGED <<results, retries, has_more, search_after, total_records, giProgress>>
       ELSE /\ results' = results \o ItemsOf(p)
            /\ ReportProgress(p)
            /\ retries' = 0
            /\ search_after' = CursorOf(p)
            /\ has_more' = (CursorOf(p) # 0 /\ Len(results) + p.n < MaxRecords)
            /\ giPc' = "loop"
            /\ UNCHANGED jobFinished

\* a page was received: `if not items: break`, else extend, reset retries, follow the cursor
ReceivePage(p) ==
    /\ fetched' = Append(fetched, p.idx)
    /\ streak' = 0
    /\ IF p.n = 0
       THEN /\ giPc' = "returned"
            /\ jobFinished' = TRUE
            /\ UNCHANGED <<results, retries, has_more, search_after, total_records, giProgress>>
       ELSE /\ results' = results \o ItemsOf(p)
            /\ ReportProgress(p)
            /\ retries' = 0
            /\ search_after' = CursorOf(p)
            /\ has_more' = (CursorOf(p) # 0)
            /\ giPc' = "loop"
            /\ UNCHANGED jobFinished

\* the outcomes of requests.get + raise_for_status in the webjutter variant
GetOutcomes == {"ok", "badjson", "connerr", "timeout", "other", "429", "4xx", "5xx", "hang"}

\* one pass of the loop of get_items (src/datasources/webjutter)
GetItemsPass ==
    /\ prog = "webjutter"
    /\ giPc = "loop"
    /\ LoopGuard
    /\ IF interrupted
       THEN /\ giPc' = "interrupted"
            /\ UNCHANGED <<results, retries, has_more, search_after, fetched, jobFinished, giWait, streak, total_records, giProgress>>
       ELSE \E o \in GetOutcomes :
            \/ /\ o = "connerr"
               /\ giWait' = <<retries + 1, FixedWait, o>>
               /\ retries' = retries + 1
               /\ streak' = streak + 1
               /\ UNCHANGED <<total_records, giProgress>>
               /\ UNCHANGED <<giPc, results, has_more, search_after, fetched, jobFinished>>
            \/ /\ o = "429"
               /\ giWait' = <<retries + 1, RateLimitWait(retries), o>>
               /\ retries' = retries + 1
               /\ streak' = streak + 1
               /\ UNCHANGED <<total_records, giProgress>>
               /\ UNCHANGED <<giPc, results, has_more, search_after, fetched, jobFinished>>
            \/ /\ o \in {"4xx", "5xx"}
               \* raise e
               /\ giPc' = "raised"
               /\ streak' = streak + 1
               /\ UNCHANGED <<total_records, giProgress>>
               /\ UNCHANGED <<results, retries, has_more, search_after, fetched, jobFinished, giWait>>
            \/ /\ o \in {"timeout", "other", "badjson"}
               \* return results, without job.finish()
               /\ giPc' = "returned"
               /\ streak' = streak + 1
               /\ UNCHANGED <<total_records, giProgress>>
               /\ UNCHANGED <<results, retries, has_more, search_after, fetched, jobFinished, giWait>>
            \/ /\ o = "ok"
               /\ ReceivePage(PageAt(search_after))
               /\ UNCHANGED giWait
            \/ /\ o = "hang"
               \* requests.get(base_url, params=params, auth=(user, password)) has no
               \* timeout: when the server never answers the call never returns
               /\ giPc' = "hung"
               /\ UNCHANGED <<results, retries, has_more, search_after, fetched, jobFinished, giWait,
                              streak, total_records, giProgress>>
    /\ UNCHANGED <<prog, upVars, vqVars, interrupted, pages, rqVars, imVars>>

\* the loop condition fails: self.job.finish(); return results
GetItemsExit ==
    /\ prog \in {"webjutter", "webjutter_search"}
    /\ giPc = "loop"
    /\ ~LoopGuard
    /\ giPc' = "returned"
    /\ jobFinished' = TRUE
    /\ UNCHANGED <<prog, upVars, vqVars, interrupted, pages, results, retries, has_more, search_after, fetched, giWait,
                   streak, total_records, giProgress, rqVars, imVars>>

\* the exceptions get_items (src/datasources/webjutter_search) catches around the request
CaughtByGetItems == {"ConnectionError", "Timeout", "HTTPError", "JSONDecodeError"}

\* the head of one pass of the loop of get_items (src/datasources/webjutter_search):
\* the interrupt poll, then the call of webjutter_search_request
GetItemsCall ==
    /\ prog = "webjutter_search"
    /\ giPc = "loop"
    /\ LoopGuard
    /\ IF interrupted
       THEN /\ giPc' = "interrupted"
            /\ UNCHANGED rqVars
       ELSE /\ giPc' = "call"
            /\ RequestStart(DefaultMaxRetries)
            /\ UNCHANGED rqLate
    /\ UNCHANGED <<prog, upVars, vqVars, interrupted, pages, results, retries, has_more, search_after, fetched, jobFinished,
                   giWait, streak, total_records, giProgress, imVars>>

\* the rest of the pass, once webjutter_search_request has returned or raised
GetItemsResume ==
    /\ prog = "webjutter_search"
    /\ giPc = "call"
    /\ rqPc \in {"returned", "raised"}
    /\ rqPc' = "idle"
    /\ IF rqPc = "raised"
       THEN /\ giPc' = (IF rqExc \in CaughtByGetItems THEN "error" ELSE "raised")
            /\ UNCHANGED <<results, retries, has_more, search_after, fetched, jobFinished, streak, total_records, giProgress>>
       ELSE ReceivePage(PageAt(search_after))
    /\ UNCHANGED <<prog, upVars, vqVars, interrupted, pages, giWait, rqMax, rqRetries, rqTrace, rqSleeps, rqExc, rqLate, imVars>>

\* get_items ended with a run-level error: self.dataset.finish(-1), or an exception
\* that leaves get_items
RunError == giPc \in {"error", "raised"}

\* the records get_items hands to its caller: results on `return results`; nothing
\* on the bare `return` after finish(-1) or when an exception leaves
Delivered == IF giPc = "returned" THEN results ELSE <<>>

(* ------------------ FourchanSearchImageDownloader ---------------------- *)

\* the image downloader run from process(): cloudscraper path, proxied path, and
\* src/download_4chan_images.py
Downloaders == {"fourplebs", "desuarchive", "legacy"}

\* the search URLs built from the source dataset (a set: no URL twice)
SearchUrls == 1..NumUrls

\* the rows of the source dataset, each by the search URL built for it; two rows
\* can have the same URL (the same md5, in src/download_4chan_images.py)
SourceItems == [i \in 1..(NumUrls + 1) |-> IF i <= NumUrls THEN i ELSE 1]

\* a variant of Submitted: the URLs are collected in a list, one entry per row
SubmittedPerRow(items) == [u \in SearchUrls |-> Cardinality({i \in DOMAIN items : items[i] = u})]

\* search_urls = set(); ... search_urls.add(url): the requests submitted per URL
Submitted(items) == [u \in SearchUrls |-> IF \E i \in DOMAIN items : items[i] = u THEN 1 ELSE 0]

\* the result of a request for u was consumed
Consumed(fl, u) == [fl EXCEPT ![u] = @ - 1]

\* image URLs: a directory part and a last path segment; two of the three share the
\* last segment
Img == { [dir |-> "d1", base |-> "b1"], [dir |-> "d2", base |-> "b1"], [dir |-> "d1", base |-> "b2"] }

\* img_url.split("/")[-1]
FilenameOf(u) == u.base

\* self.filenames[img_url] = ...: a new key goes last, a known key keeps its place
AddFilename(fn, u) == IF \E i \in DOMAIN fn : fn[i] = u THEN fn ELSE Append(fn, u)

Keys(fn) == {fn[i] : i \in DOMAIN fn}

\* what an archive API request of the resolve phase can come back with
\* (src/datasources/fourchan): no response at all, a status other than 200, or a 200
\* whose body is a rate-limit error, yields an image URL, has no media, has an
\* unexpected shape (empty posts list, null media), or is not JSON
ApiKinds == {"failed", "404", "429", "500", "limit", "img", "nomedia", "badshape", "badjson"}
StatusKinds == {"404", "429", "500"}

\* what a search page request of the resolve phase can come back with (src/download_4chan_images.py):
\* no response, a page with the image link, a "No results found" alert, a page with
\* neither, or bytes that are not UTF-8
HtmlKinds == {"failed", "img", "notfound", "nolink", "undecodable"}

\* what a download request can come back with
DlKinds == {"failed", "200", "404"}

\* a variant of Backoff: the exponent is the count itself
BackoffFromCount(count) == Pow2(count)

\* sleep_time = 2 ** (count + 1)
Backoff(count) == Pow2(count + 1)

\* cloudscraper path: `if should_retry or (retry_reason and "API" in retry_reason)`
ShouldRetryCloudscraper(r) == r = "limit" \/ r \in StatusKinds

\* proxied path: `if should_retry`, set only by extract_url_from_json
ShouldRetryProxied(r) == r = "limit"

\* a variant of RetryAllowed: one retry more
RetryAllowedInclusive(count) == count <= MaxImageRetries

\* `if count < 3`
RetryAllowed(count) == count < MaxImageRetries

\* targets = list(self.filenames.keys()); if self.amount > 0: targets = targets[:self.amount]
TargetsOf(fn) == IF amount > 0 THEN SubSeq(fn, 1, Min(amount, Len(fn))) ELSE fn

\* a variant of CapReached: stops one resolved URL early
CapReachedEarly(fn) == Len(fn) + 1 >= amount /\ amount > 0

\* a variant of CapReached: stops one resolved URL late
CapReachedLate(fn) == Len(fn) > amount /\ amount > 0

\* `if len(self.filenames) >= self.amount > 0`
CapReached(fn) == Len(fn) >= amount /\ amount > 0

Bump(f, u) == [f EXCEPT ![u] = @ + 1]

\* the class of a first response: an HTTP 4xx other than 429, or anything else
RespClass(r) == IF r = "404" THEN "fatal" ELSE "other"

\* the archive answered the search: with an image, or with no match
AnswerKinds == {"img", "nomedia", "notfound"}

\* the failures that are rate limits, transient network errors or 5xx answers
TransientKinds == {"failed", "429", "500", "limit"}

\* the transient failure r of search URL u was not followed by a retry although the
\* URL had had fewer than 3
Dropped(u, r, counts) == r \in TransientKinds /\ retry_counts[u] < MaxImageRetries /\ counts[u] = retry_counts[u]

NoteAttempt(u, r) ==
    /\ attempts' = Bump(attempts, u)
    /\ answered' = (answered \/ r \in AnswerKinds)
    /\ fatalRetried' = (fatalRetried \/ (attempts[u] >= 1 /\ firstResp[u] = "fatal"))
    /\ limitOnly' = [limitOnly EXCEPT ![u] = @ /\ r = "limit"]

\* the first response of search URL u is remembered until u has its terminal outcome
NoteFirst(u, r) ==
    firstResp' = [v \in SearchUrls |->
                     IF outcomes'[v] > 0 THEN "none"
                     ELSE IF v = u /\ attempts[u] = 0 THEN RespClass(r)
                     ELSE firstResp[v]]

\* the resolve loop is left: flush_proxied_requests (proxied paths), then process() goes on:
\* the fourchan variant finishes with 0 when nothing was resolved, else the download starts
EndResolve(fn, q, fl) ==
    /\ queue' = (IF prog = "fourplebs" THEN q ELSE {})
    /\ inflight' = (IF prog = "fourplebs" THEN fl ELSE [u \in SearchUrls |-> 0])
    /\ IF prog # "legacy" /\ fn = <<>>
       THEN /\ imPc' = "done"
            /\ resultCount' = 0
            /\ dlQueue' = {}
       ELSE /\ imPc' = "download"
            /\ dlQueue' = (IF prog = "legacy" THEN Keys(fn) ELSE Keys(TargetsOf(fn)))
            /\ UNCHANGED resultCount

\* update_progress(len(self.filenames) / self.amount / 2)
ResolveProgress(fn) == <<Len(fn), 2 * amount>>

\* src/download_4chan_images.py: update_progress(len(self.filenames) / len(search_urls) / 2)
LegacyResolveProgress(fn) == <<Len(fn), 2 * Cardinality(SearchUrls)>>

\* a variant of DownloadProgress: the half of the resolve phase is left out
DownloadProgressFromZero(dl, fn) == <<Cardinality(dl), 2 * Len(TargetsOf(fn))>>

\* update_progress(0.5 + (len(downloaded_files) / len(targets) / 2))
DownloadProgress(dl, fn) == <<Len(TargetsOf(fn)) + Cardinality(dl), 2 * Len(TargetsOf(fn))>>

\* src/download_4chan_images.py: max_images = min(len(self.filenames), amount) if amount > 0 else len(self.filenames)
max_images(fn) == IF amount > 0 THEN Min(Len(fn), amount) ELSE Len(fn)

\* src/download_4chan_images.py: update_progress(.5 + (len(downloaded_files) / max_images / 2))
LegacyDownloadProgress(dl, fn) == <<max_images(fn) + Cardinality(dl), 2 * max_images(fn)>>

\* the end of one pass of the resolve loop of the fourchan variant: the courtesy sleep,
\* update_progress(len(self.filenames) / self.amount / 2), the cap check
TailNew(fn, q, fl) ==
    IF amount = 0
    THEN /\ imPc' = "ZeroDivisionError"
         /\ queue' = q
         /\ inflight' = fl
         /\ UNCHANGED <<dlQueue, resultCount, progress>>
    ELSE /\ progress' = ResolveProgress(fn)
         /\ IF CapReached(fn)
            THEN EndResolve(fn, q, fl)
            ELSE /\ imPc' = "resolve"
                 /\ queue' = q
                 /\ inflight' = fl
                 /\ UNCHANGED <<dlQueue, resultCount>>

dlUnchanged == UNCHANGED <<downloaded_files, failures, metadata, complete, manifest, manifestWritten, stagingRemoved,
                          streams, files, wroteAfterFlag>>

\* cloudscraper path: `for search_url in search_urls`, the interrupt poll
CloudscraperNext ==
    /\ prog = "fourplebs"
    /\ imPc = "resolve"
    /\ queue # {}
    /\ \E u \in queue :
        IF interrupted
        THEN /\ imPc' = "interrupted"
             /\ UNCHANGED <<queue, cur>>
        ELSE /\ imPc' = "attempt"
             /\ cur' = u
             /\ queue' = queue \ {u}
    /\ UNCHANGED <<prog, upVars, vqVars, interrupted, rqVars, giVars, amount, retry_counts, filenames, dlQueue, resultCount,
                   outcomes, attempts, firstResp, fatalRetried, limitOnly, answered, lastWait, lateDispatch, progress, inflight,
                   droppedTransient>>
    /\ dlUnchanged

\* cloudscraper path: one pass of `while True`: scraper.get and its handling, up to the
\* backoff sleep (retry) or to the end of the pass of the for loop (success, give up)
CloudscraperAttempt ==
    /\ prog = "fourplebs"
    /\ imPc = "attempt"
    /\ \E r \in ApiKinds :
        /\ NoteAttempt(cur, r)
        /\ lateDispatch' = (lateDispatch \/ interrupted)
        /\ IF r = "img"
           THEN \E img \in Img :
                /\ filenames' = AddFilename(filenames, img)
                /\ outcomes' = Bump(outcomes, cur)
                /\ cur' = 0
                /\ TailNew(AddFilename(filenames, img), queue, Consumed(inflight, cur))
                /\ UNCHANGED <<retry_counts, lastWait>>
           ELSE IF ShouldRetryCloudscraper(r) /\ RetryAllowed(retry_counts[cur])
           THEN /\ retry_counts' = Bump(retry_counts, cur)
                /\ lastWait' = <<retry_counts[cur] + 1, Backoff(retry_counts[cur])>>
                /\ UNCHANGED <<imPc, queue, cur, filenames, dlQueue, resultCount, outcomes, progress, inflight>>
           ELSE /\ outcomes' = Bump(outcomes, cur)
                /\ cur' = 0
                /\ TailNew(filenames, queue, Consumed(inflight, cur))
                /\ UNCHANGED <<filenames, retry_counts, lastWait>>
        /\ droppedTransient' = (IF Dropped(cur, r, retry_counts') THEN r ELSE droppedTransient)
        /\ NoteFirst(cur, r)
    /\ UNCHANGED <<prog, upVars, vqVars, interrupted, rqVars, giVars, amount>>
    /\ dlUnchanged

\* the for loop of a resolve phase has no target left
ResolveLoopEnd ==
    /\ prog \in {"fourplebs", "desuarchive", "legacy"}
    /\ imPc = "resolve"
    /\ queue = {}
    /\ EndResolve(filenames, queue, inflight)
    /\ UNCHANGED <<prog, upVars, vqVars, interrupted, rqVars, giVars, amount, cur, retry_counts, filenames,
                   outcomes, attempts, firstResp, fatalRetried, limitOnly, answered, lastWait, lateDispatch, progress, droppedTransient>>
    /\ dlUnchanged

\* proxied path (fourchan variant): one result of iterate_proxied_requests and its handling,
\* up to the backoff sleep (retry) or to the end of the pass
ProxiedResult ==
    /\ prog = "desuarchive"
    /\ imPc = "resolve"
    /\ \E u \in queue, r \in ApiKinds :
        IF interrupted
        THEN /\ imPc' = "interrupted"
             /\ UNCHANGED <<queue, cur, retry_counts, filenames, dlQueue, resultCount, outcomes,
                            attempts, firstResp, fatalRetried, limitOnly, answered, lastWait, progress, inflight, droppedTransient>>
        ELSE /\ NoteAttempt(u, r)
             /\ IF r = "badshape"
                THEN \* IndexError (or TypeError) out of extract_url_from_json: only ValueError is caught
                     /\ imPc' = "IndexError"
                     /\ queue' = queue \ {u}
                     /\ inflight' = Consumed(inflight, u)
                     /\ UNCHANGED <<cur, retry_counts, filenames, dlQueue, resultCount, outcomes, lastWait, progress>>
                ELSE IF r = "img"
                THEN \E img \in Img :
                     /\ filenames' = AddFilename(filenames, img)
                     /\ outcomes' = Bump(outcomes, u)
                     /\ TailNew(AddFilename(filenames, img), queue \ {u}, Consumed(inflight, u))
                     /\ UNCHANGED <<cur, retry_counts, lastWait>>
                ELSE IF ShouldRetryProxied(r) /\ RetryAllowed(retry_counts[u])
                THEN /\ retry_counts' = Bump(retry_counts, u)
                     /\ lastWait' = <<retry_counts[u] + 1, Backoff(retry_counts[u])>>
                     /\ imPc' = "backoff"
                     /\ cur' = u
                     /\ queue' = queue \ {u}
                     /\ inflight' = Consumed(inflight, u)
                     /\ UNCHANGED <<filenames, dlQueue, resultCount, outcomes, progress>>
                ELSE /\ outcomes' = Bump(outcomes, u)
                     /\ TailNew(filenames, queue \ {u}, Consumed(inflight, u))
                     /\ UNCHANGED <<cur, filenames, retry_counts, lastWait>>
             /\ droppedTransient' = (IF Dropped(u, r, retry_counts') THEN r ELSE droppedTransient)
             /\ NoteFirst(u, r)
    /\ UNCHANGED <<prog, upVars, vqVars, interrupted, rqVars, giVars, amount, lateDispatch>>
    /\ dlUnchanged

\* proxied paths: the backoff sleep is over: push_proxied_request(search_url, position=-1); continue
ProxiedRequeue ==
    /\ prog \in {"desuarchive", "legacy"}
    /\ imPc = "backoff"
    /\ queue' = queue \cup {cur}
    /\ inflight' = [inflight EXCEPT ![cur] = @ + 1]
    /\ cur' = 0
    /\ imPc' = "resolve"
    /\ lateDispatch' = (lateDispatch \/ interrupted)
    /\ UNCHANGED <<prog, upVars, vqVars, interrupted, rqVars, giVars, amount, retry_counts, filenames, dlQueue, resultCount,
                   outcomes, attempts, firstResp, fatalRetried, limitOnly, answered, lastWait, progress, droppedTransient>>
    /\ dlUnchanged

\* src/download_4chan_images.py: one result of the resolve loop and its handling
LegacyResult ==
    /\ prog = "legacy"
    /\ imPc = "resolve"
    /\ \E u \in queue, r \in HtmlKinds :
        IF interrupted
        THEN /\ imPc' = "interrupted"
             /\ UNCHANGED <<queue, cur, retry_counts, filenames, dlQueue, resultCount, outcomes,
                            attempts, firstResp, fatalRetried, limitOnly, answered, lastWait, progress, inflight, droppedTransient>>
        ELSE /\ NoteAttempt(u, r)
             /\ IF r = "img"
                THEN \E img \in Img :
                     /\ filenames' = AddFilename(filenames, img)
                     /\ outcomes' = Bump(outcomes, u)
                     /\ progress' = LegacyResolveProgress(AddFilename(filenames, img))
                     /\ IF CapReached(AddFilename(filenames, img))
                        THEN EndResolve(AddFilename(filenames, img), queue \ {u}, Consumed(inflight, u))
                        ELSE /\ imPc' = "resolve"
                             /\ queue' = queue \ {u}
                             /\ inflight' = Consumed(inflight, u)
                             /\ UNCHANGED <<dlQueue, resultCount>>
                     /\ UNCHANGED <<cur, retry_counts, lastWait>>
                ELSE IF r = "nolink" /\ RetryAllowed(retry_counts[u])
                THEN /\ retry_counts' = Bump(retry_counts, u)
                     /\ lastWait' = <<retry_counts[u] + 1, Backoff(retry_counts[u])>>
                     /\ imPc' = "backoff"
                     /\ cur' = u
                     /\ queue' = queue \ {u}
                     /\ inflight' = Consumed(inflight, u)
                     /\ UNCHANGED <<filenames, dlQueue, resultCount, outcomes, progress>>
                ELSE \* failed request, not found, retries used up, undecodable: next result
                     /\ outcomes' = Bump(outcomes, u)
                     /\ queue' = queue \ {u}
                     /\ inflight' = Consumed(inflight, u)
                     /\ UNCHANGED <<imPc, cur, filenames, retry_counts, lastWait, dlQueue, resultCount, progress>>
             /\ droppedTransient' = (IF Dropped(u, r, retry_counts') THEN r ELSE droppedTransient)
             /\ NoteFirst(u, r)
    /\ UNCHANGED <<prog, upVars, vqVars, interrupted, rqVars, giVars, amount, lateDispatch>>
    /\ dlUnchanged

(* ------------------------------ stream_url ----------------------------- *)

\* the download phase with the response hook observed chunk by chunk
Sinks == {"sink", "legacy_sink"}

\* the resolved image URLs a download phase starts from: one URL, two URLs with the
\* same last path segment, two URLs with different ones
ResolvedInputs ==
    { <<[dir |-> "d1", base |-> "b1"]>>,
      <<[dir |-> "d1", base |-> "b1"], [dir |-> "d2", base |-> "b1"]>>,
      <<[dir |-> "d1", base |-> "b1"], [dir |-> "d1", base |-> "b2"]>> }

Filenames == {FilenameOf(u) : u \in Img}

NoStream == [pc |-> "queued", resp |-> "none", read |-> 0, wrote |-> 0, why |-> "none"]

\* a variant of StopStreaming: only the status of the response is looked at
StopStreamingOnStatus(st) == st.resp # "200"

\* `if not response.ok or self.interrupted or self.complete`
StopStreaming(st) == st.resp # "200" \/ interrupted \/ complete

\* the result of a download request is ready to be yielded: in a sink the hook has
\* returned (or there was no response), and the response is the one the hook saw
Yielded(u, r) == prog \in Sinks => (streams[u].pc = "over" /\ streams[u].resp = r)

\* path.unlink(missing_ok=True)
Unlink(fs, name) == [fs EXCEPT ![name] = <<>>]

\* shutil.rmtree(self.staging_area)
Rmtree(fs) == [f \in DOMAIN fs |-> <<>>]

\* a variant of Cleanup: nothing is removed after the download loop
CleanupKeep(fs, fn, dl) == fs

\* for url, filename in self.filenames.items(): if exists and url not in downloaded_files: unlink
Cleanup(fs, fn, dl) ==
    [f \in DOMAIN fs |-> IF \E u \in Keys(fn) : FilenameOf(u) = f /\ u \notin dl THEN <<>> ELSE fs[f]]

\* the response of a download request arrives: without response there is no hook
\* call; with one, stream_url starts
StreamBegin ==
    /\ prog \in Sinks
    /\ imPc = "download"
    /\ \E u \in dlQueue, r \in DlKinds :
        /\ streams[u].pc = "queued"
        /\ streams' = [streams EXCEPT ![u] = [@ EXCEPT !.resp = r,
                                                       !.pc = IF r = "failed" THEN "over" ELSE "reading",
                                                       !.why = IF r = "failed" THEN "failed" ELSE "none"]]
    /\ UNCHANGED <<prog, upVars, vqVars, interrupted, rqVars, giVars, loopVars, files, wroteAfterFlag>>

\* one pass of `while chunk := response.raw.read(1024, decode_content=True)`
StreamChunk ==
    /\ prog \in Sinks
    /\ \E u \in DOMAIN streams :
        LET st == streams[u] IN
        /\ st.pc = "reading"
        /\ IF st.read = PayloadChunks
           THEN \* nothing left to read: the loop ends
                /\ streams' = [streams EXCEPT ![u] = [@ EXCEPT !.pc = "over", !.why = "end"]]
                /\ UNCHANGED <<files, wroteAfterFlag>>
           ELSE IF StopStreaming(st)
           THEN \* response.raw.close(); return: the chunk just read is dropped
                /\ streams' = [streams EXCEPT ![u] = [@ EXCEPT !.pc = "over", !.read = @ + 1,
                                   !.why = IF st.resp # "200" THEN "status" ELSE "flag"]]
                /\ UNCHANGED <<files, wroteAfterFlag>>
           ELSE \* the check is passed: the chunk is going to be written
                /\ streams' = [streams EXCEPT ![u] = [@ EXCEPT !.pc = "writing", !.read = @ + 1]]
                /\ wroteAfterFlag' = (wroteAfterFlag \/ interrupted \/ complete)
                /\ UNCHANGED files
    /\ UNCHANGED <<prog, upVars, vqVars, interrupted, rqVars, giVars, loopVars>>

\* `with destination.open("ab") as outfile: outfile.write(chunk)`, some time after the
\* check. Opening for append creates the file when it is missing, and raises
\* FileNotFoundError when the staging directory is; src/download_4chan_images.py
\* has its `except FileNotFoundError` around outfile.write, inside the `with`, so
\* the exception of open() is outside it and leaves the hook in both variants
StreamWrite ==
    /\ prog \in Sinks
    /\ \E u \in DOMAIN streams :
        LET st == streams[u] IN
        /\ st.pc = "writing"
        /\ IF stagingRemoved
           THEN /\ streams' = [streams EXCEPT ![u] = [@ EXCEPT !.pc = "over", !.why = "FileNotFoundError"]]
                /\ UNCHANGED files
           ELSE /\ streams' = [streams EXCEPT ![u] = [@ EXCEPT !.pc = "reading", !.wrote = @ + 1]]
                /\ files' = [files EXCEPT ![FilenameOf(u)] = Append(@, <<u, st.read>>)]
    /\ UNCHANGED <<prog, upVars, vqVars, interrupted, rqVars, giVars, loopVars, wroteAfterFlag>>

(* --------------------------- the download loop -------------------------- *)

\* a variant of SetKey: only a success gets an entry
SetKeyOnSuccess(md, u, v) == [x \in DOMAIN md \cup (IF v THEN {u} ELSE {}) |-> IF x = u THEN v ELSE md[x]]

\* metadata[image_url] = {..., "success": success, ...}
SetKey(md, u, v) == [x \in DOMAIN md \cup {u} |-> IF x = u THEN v ELSE md[x]]

Successes(md) == {u \in DOMAIN md : md[u]}

\* after the download loop: write .metadata.json, flush, clean up, write_archive_and_finish
Finalize(md) ==
    /\ manifest' = md
    /\ manifestWritten' = TRUE
    /\ dlQueue' = {}
    /\ resultCount' = Cardinality(Successes(md))
    /\ progress' = <<1, 1>>
    /\ imPc' = "done"

\* a variant of RecordFailure: a success clears the failures recorded so far
RecordFailureReset(f, u, r) == IF r = "200" THEN <<>> ELSE Append(f, u)

\* else: failures.append(image_url)
RecordFailure(f, u, r) == IF r = "200" THEN f ELSE Append(f, u)

\* `if self.amount > 0 and len(downloaded_files) >= self.amount`
DownloadCapReached(dl) == amount > 0 /\ Cardinality(dl) >= amount

\* the staging area after a download result was handled: a status other than 200
\* ends in downloaded_path.unlink(missing_ok=True)
AfterResult(fs, u, r) == IF r = "200" THEN fs ELSE Unlink(fs, FilenameOf(u))

\* fourchan variant: one result of the download loop and its handling
DownloadResult ==
    /\ prog \in {"fourplebs", "desuarchive", "sink"}
    /\ imPc = "download"
    /\ \E u \in dlQueue : \E r \in {k \in DlKinds : Yielded(u, k)} :
        IF interrupted
        THEN \* flush_proxied_requests, rmtree(staging_area), raise
             /\ imPc' = "interrupted"
             /\ dlQueue' = {}
             /\ stagingRemoved' = TRUE
             /\ files' = Rmtree(files)
             /\ UNCHANGED <<downloaded_files, failures, metadata, complete, manifest, manifestWritten, resultCount, progress>>
        ELSE IF r = "failed"
        THEN \* a FailedProxiedRequest carries a context and no status_code
             /\ imPc' = "AttributeError"
             /\ dlQueue' = dlQueue \ {u}
             /\ UNCHANGED <<downloaded_files, failures, metadata, complete, manifest, manifestWritten, resultCount,
                            stagingRemoved, progress, files>>
        ELSE /\ downloaded_files' = (IF r = "200" THEN downloaded_files \cup {u} ELSE downloaded_files)
             /\ failures' = RecordFailure(failures, u, r)
             /\ metadata' = SetKey(metadata, u, r = "200")
             /\ UNCHANGED stagingRemoved
             /\ IF DownloadCapReached(downloaded_files')
                THEN /\ complete' = TRUE
                     /\ Finalize(metadata')
                     /\ files' = Cleanup(AfterResult(files, u, r), filenames, downloaded_files')
                ELSE /\ dlQueue' = dlQueue \ {u}
                     /\ files' = AfterResult(files, u, r)
                     /\ progress' = DownloadProgress(downloaded_files', filenames)
                     /\ UNCHANGED <<imPc, complete, manifest, manifestWritten, resultCount>>
    /\ UNCHANGED <<prog, upVars, vqVars, interrupted, rqVars, giVars, amount, queue, cur, retry_counts, filenames,
                   outcomes, attempts, firstResp, fatalRetried, limitOnly, answered, lastWait, lateDispatch, inflight, droppedTransient,
                   streams, wroteAfterFlag>>

\* src/download_4chan_images.py: one result of the download loop and its handling
LegacyDownloadResult ==
    /\ prog \in {"legacy", "legacy_sink"}
    /\ imPc = "download"
    /\ \E u \in dlQueue : \E r \in {k \in DlKinds : Yielded(u, k)} :
        IF interrupted
        THEN \* self.completed = True (not self.complete), flush, rmtree, raise
             /\ imPc' = "interrupted"
             /\ dlQueue' = {}
             /\ stagingRemoved' = TRUE
             /\ files' = Rmtree(files)
             /\ UNCHANGED <<downloaded_files, failures, metadata, complete, manifest, manifestWritten, resultCount, progress>>
        ELSE IF r = "failed"
        THEN /\ imPc' = "AttributeError"
             /\ dlQueue' = dlQueue \ {u}
             /\ UNCHANGED <<downloaded_files, failures, metadata, complete, manifest, manifestWritten, resultCount,
                            stagingRemoved, progress, files>>
        ELSE /\ downloaded_files' = (IF r = "200" /\ (Cardinality(downloaded_files) < amount \/ amount = 0)
                                     THEN downloaded_files \cup {u} ELSE downloaded_files)
             /\ failures' = RecordFailure(failures, u, r)
             /\ metadata' = SetKey(metadata, u, r = "200")
             /\ UNCHANGED stagingRemoved
             /\ complete' = (complete \/ (r = "200" /\ Cardinality(downloaded_files') >= amount /\ amount # 0))
             /\ IF complete'
                THEN /\ Finalize(metadata')
                     /\ files' = Cleanup(AfterResult(files, u, r), filenames, downloaded_files')
                ELSE /\ dlQueue' = dlQueue \ {u}
                     /\ files' = AfterResult(files, u, r)
                     /\ progress' = (IF downloaded_files' # downloaded_files
                                     THEN LegacyDownloadProgress(downloaded_files', filenames) ELSE progress)
                     /\ UNCHANGED <<imPc, manifest, manifestWritten, resultCount>>
    /\ UNCHANGED <<prog, upVars, vqVars, interrupted, rqVars, giVars, amount, queue, cur, retry_counts, filenames,
                   outcomes, attempts, firstResp, fatalRetried, limitOnly, answered, lastWait, lateDispatch, inflight, droppedTransient,
                   streams, wroteAfterFlag>>

\* the download loop has no target left
DownloadLoopEnd ==
    /\ prog \in Downloaders \cup Sinks
    /\ imPc = "download"
    /\ dlQueue = {}
    /\ Finalize(metadata)
    /\ files' = Cleanup(files, filenames, downloaded_files)
    /\ UNCHANGED <<prog, upVars, vqVars, interrupted, rqVars, giVars, amount, queue, cur, retry_counts, filenames,
                   downloaded_files, failures, metadata, complete, stagingRemoved,
                   outcomes, attempts, firstResp, fatalRetried, limitOnly, answered, lastWait, lateDispatch, inflight, droppedTransient,
                   streams, wroteAfterFlag>>

\* the host raises the interrupt flag
Interrupt ==
    /\ ~interrupted
    /\ \/ giPc \in {"loop", "call"}
       \/ imPc \in {"resolve", "attempt", "backoff", "download"}
    /\ interrupted' = TRUE
    /\ UNCHANGED <<prog, upVars, vqVars, rqVars, giVars, imVars>>

(* ------------- WebjutterUpdater.work and get_options ------------------- *)

\* what requests.get(.../api/overview) can come to: 200 with a truthy JSON body, 200
\* with a falsy one ({}, [], null), 200 with a body that is not JSON (response.json()
\* raises requests.JSONDecodeError, a RequestException), another status, a
\* RequestException, or no answer at all (the call has no timeout)
OverviewOutcomes == {"ok", "empty", "badjson", "http", "connerr", "hang"}

\* `collections` after the try block: truthy or not
Collections(o) == o = "ok"

ShouldRemoveUnreadable(ro, f) == ro /\ f = "truncated"

\* `if remove_old and os.path.isfile(webjutter_datasources_file)`
ShouldRemove(ro, f) == ro /\ f # "absent"

\* an administrator sets or clears the Webjutter settings
SetConfig ==
    /\ prog = "updater"
    /\ configured' = ~configured
    /\ UNCHANGED <<prog, vqVars, interrupted, rqVars, giVars, imVars, dsFile, upPc, remove_old, upConf,
                   upOverview, upOld, goPc, goResult>>

\* work() begins: remove_old = True and the settings check
WorkStart ==
    /\ prog = "updater"
    /\ upPc = "idle"
    /\ remove_old' = TRUE
    /\ upConf' = configured
    /\ upOld' = (dsFile # "absent")
    /\ upOverview' = (IF configured THEN "pending" ELSE "skipped")
    /\ upPc' = (IF configured THEN "request" ELSE "remove")
    /\ UNCHANGED <<prog, vqVars, interrupted, rqVars, giVars, imVars, configured, dsFile, goPc, goResult>>

\* the overview request and its handling
WorkOverview ==
    /\ prog = "updater"
    /\ upPc = "request"
    /\ \E o \in OverviewOutcomes :
        /\ upOverview' = o
        /\ upPc' = (IF o = "hang" THEN "hung" ELSE IF Collections(o) THEN "store" ELSE "remove")
    /\ UNCHANGED <<prog, vqVars, interrupted, rqVars, giVars, imVars, configured, dsFile, remove_old, upConf,
                   upOld, goPc, goResult>>

\* webjutter_datasources_file.open("w"): the file exists and is empty
WorkOpen ==
    /\ prog = "updater"
    /\ upPc = "store"
    /\ dsFile' = "truncated"
    /\ upPc' = "dump"
    /\ UNCHANGED <<prog, vqVars, interrupted, rqVars, giVars, imVars, configured, remove_old, upConf,
                   upOverview, upOld, goPc, goResult>>

\* json.dump, remove_old = False and the end of the with block
WorkDump ==
    /\ prog = "updater"
    /\ upPc = "dump"
    /\ dsFile' = "full"
    /\ remove_old' = FALSE
    /\ upPc' = "remove"
    /\ UNCHANGED <<prog, vqVars, interrupted, rqVars, giVars, imVars, configured, upConf, upOverview, upOld,
                   goPc, goResult>>

\* the last statement of work(): the old file is removed
WorkRemove ==
    /\ prog = "updater"
    /\ upPc = "remove"
    /\ dsFile' = (IF ShouldRemove(remove_old, dsFile) THEN "absent" ELSE dsFile)
    /\ upPc' = "idle"
    /\ UNCHANGED <<prog, vqVars, interrupted, rqVars, giVars, imVars, configured, remove_old, upConf,
                   upOverview, upOld, goPc, goResult>>

\* get_options up to datasources_file.exists()
GetOptionsCheck ==
    /\ prog = "updater"
    /\ goPc \in {"idle", "done"}
    /\ IF ~configured THEN goPc' = "done" /\ goResult' = "error_not_configured"
       ELSE IF dsFile = "absent" THEN goPc' = "done" /\ goResult' = "error_not_reachable"
       ELSE goPc' = "checked" /\ goResult' = "none"
    /\ UNCHANGED <<prog, vqVars, interrupted, rqVars, giVars, imVars, configured, dsFile, upPc, remove_old,
                   upConf, upOverview, upOld>>

\* json.load(open(datasources_file, "r")) with `except json.JSONDecodeError` around it
GetOptionsLoad ==
    /\ prog = "updater"
    /\ goPc = "checked"
    /\ goPc' = "done"
    /\ goResult' = (CASE dsFile = "absent" -> "FileNotFoundError"
                      [] dsFile = "truncated" -> "error_not_readable"
                      [] OTHER -> "options")
    /\ UNCHANGED <<prog, vqVars, interrupted, rqVars, giVars, imVars, configured, dsFile, upPc, remove_old,
                   upConf, upOverview, upOld>>

(* --------------------------- validate_query ---------------------------- *)

\* the number of hits above which the query needs frontend-confirm
ConfirmThreshold == 50000

\* what a test search can report: a falsy JSON body, or a body with a total
TestResponses == {<<>>, <<0>>, <<1>>, <<ConfirmThreshold>>, <<ConfirmThreshold + 1>>}

\* except (ConnectionError, Timeout, RequestException, HTTPError, JSONDecodeError)
CaughtByValidate == {"ConnectionError", "Timeout", "HTTPError", "JSONDecodeError"}

\* the statements after the test search: the response, total_hits, the confirmation
AfterSearch(resp, confirm) ==
    IF resp = <<>> THEN "QueryParametersException"
    ELSE IF resp[1] = 0 THEN "QueryParametersException"
    ELSE IF ~confirm /\ resp[1] > ConfirmThreshold THEN "QueryNeedsExplicitConfirmationException"
    ELSE "returned"

\* validate_query up to the first request of the test search: the checks of the query
\* text and the datasource, then webjutter_search_request(..., timeout=5, max_retries=1)
\* with its own checks of url, user and password
ValidateCall ==
    /\ prog = "validate"
    /\ vqPc = "start"
    /\ \E i \in [q : BOOLEAN, ds : BOOLEAN, confirm : BOOLEAN] :
        /\ vqIn' = i
        /\ IF ~i.q \/ ~i.ds
           THEN /\ vqPc' = "done" /\ vqResult' = "QueryParametersException"
                /\ UNCHANGED <<rqPc, rqMax, rqRetries, rqTrace, rqSleeps, rqExc>>
           ELSE IF ~configured
           THEN /\ vqPc' = "done" /\ vqResult' = "ConfigException"
                /\ UNCHANGED <<rqPc, rqMax, rqRetries, rqTrace, rqSleeps, rqExc>>
           ELSE /\ vqPc' = "search" /\ vqResult' = "none"
                /\ RequestStart(1)
    /\ UNCHANGED <<prog, upVars, interrupted, rqLate, giVars, imVars, vqResp>>

\* the test search is over: its exception is caught or passes, its response is judged
ValidateResult ==
    /\ prog = "validate"
    /\ vqPc = "search"
    /\ rqPc \in {"returned", "raised"}
    /\ vqPc' = "done"
    /\ IF rqPc = "raised"
       THEN /\ vqResult' = (IF rqExc \in CaughtByValidate THEN "QueryParametersException" ELSE rqExc)
            /\ UNCHANGED vqResp
       ELSE \E r \in TestResponses :
            /\ vqResp' = r
            /\ vqResult' = AfterSearch(r, vqIn.confirm)
    /\ UNCHANGED <<prog, upVars, interrupted, rqVars, giVars, imVars, vqIn>>

(* --------------------------- specification ----------------------------- *)

\* the values of amount a download phase with the resolved URLs fn can have been
\* entered with: the resolve loop stops as soon as len(self.filenames) >= amount > 0,
\* and only src/download_4chan_images.py gets past its resolve loop with amount = 0
SinkAmounts(fn) == {a \in 0..MaxAmount : (a = 0 /\ prog = "legacy_sink") \/ a >= Len(fn)}

\* the pages the server holds: the number of items of each and whether it carries a
\* cursor (the cursor of an empty page is never read: `if not items: break`)
PageLayouts == {f \in [1..MaxPages -> [n : ItemCounts, cur : BOOLEAN]] : \A i \in 1..MaxPages : f[i].n = 0 => ~f[i].cur}

Searches == {"webjutter", "webjutter_search"}

Init ==
    /\ prog \in {"request", "updater", "validate"} \cup Searches \cup Downloaders \cup Sinks
    /\ interrupted = FALSE
    /\ rqPc = "idle" /\ rqMax = 0 /\ rqRetries = 0 /\ rqTrace = <<>> /\ rqSleeps = <<>>
    /\ rqExc = "" /\ rqLate = FALSE
    /\ pages \in (IF prog \in Searches THEN PageLayouts ELSE {[i \in 1..MaxPages |-> [n |-> 0, cur |-> FALSE]]})
    /\ giPc = (IF prog \in Searches THEN "loop" ELSE "idle")
    /\ results = <<>> /\ retries = 0 /\ has_more = TRUE /\ search_after = 0
    /\ fetched = <<>> /\ jobFinished = FALSE /\ giWait = <<>> /\ streak = 0
    /\ total_records = (IF prog = "webjutter_search" THEN <<0>> ELSE <<>>) /\ giProgress = <<>>
    /\ filenames \in (IF prog \in Sinks THEN ResolvedInputs ELSE {<<>>})
    /\ amount \in (IF prog \in Downloaders THEN 0..MaxAmount
                   ELSE IF prog \in Sinks THEN SinkAmounts(filenames) ELSE {0})
    /\ imPc = (IF prog \in Downloaders THEN "resolve" ELSE IF prog \in Sinks THEN "download" ELSE "off")
    /\ queue = (IF prog \in Downloaders THEN SearchUrls ELSE {})
    /\ cur = 0
    /\ retry_counts = [u \in SearchUrls |-> 0]
    /\ dlQueue = Keys(filenames) /\ downloaded_files = {} /\ failures = <<>> /\ metadata = <<>> /\ complete = FALSE
    /\ manifest = <<>> /\ manifestWritten = FALSE /\ resultCount = -1 /\ stagingRemoved = FALSE
    /\ outcomes = [u \in SearchUrls |-> 0]
    /\ attempts = [u \in SearchUrls |-> 0]
    /\ firstResp = [u \in SearchUrls |-> "none"]
    /\ fatalRetried = FALSE
    /\ limitOnly = [u \in SearchUrls |-> TRUE]
    /\ answered = FALSE
    /\ lastWait = <<0, 0>>
    /\ lateDispatch = FALSE
    /\ droppedTransient = "none"
    /\ inflight = (IF prog \in Downloaders THEN Submitted(SourceItems) ELSE [u \in SearchUrls |-> 0])
    /\ progress = (IF prog = "sink" THEN ResolveProgress(filenames)
                   ELSE IF prog = "legacy_sink" THEN LegacyResolveProgress(filenames) ELSE <<0, 1>>)
    /\ streams = [u \in Keys(filenames) |-> NoStream]
    /\ files = [f \in Filenames |-> <<>>]
    /\ wroteAfterFlag = FALSE
    /\ configured \in (IF prog \in {"updater", "validate"} THEN BOOLEAN ELSE {TRUE})
    /\ dsFile = "absent" /\ upPc = "idle" /\ remove_old = TRUE
    /\ upConf = FALSE /\ upOverview = "none" /\ upOld = FALSE
    /\ goPc = "idle" /\ goResult = "none"
    /\ vqPc = (IF prog = "validate" THEN "start" ELSE "off")
    /\ vqIn = [q |-> FALSE, ds |-> FALSE, confirm |-> FALSE] /\ vqResp = <<-1>> /\ vqResult = "none"

Next ==
    \/ RequestCall
    \/ RequestAttempt
    \/ GetItemsPass
    \/ GetItemsExit
    \/ GetItemsCall
    \/ GetItemsResume
    \/ CloudscraperNext
    \/ CloudscraperAttempt
    \/ ProxiedResult
    \/ ProxiedRequeue
    \/ LegacyResult
    \/ ResolveLoopEnd
    \/ DownloadResult
    \/ LegacyDownloadResult
    \/ DownloadLoopEnd
    \/ StreamBegin
    \/ StreamChunk
    \/ StreamWrite
    \/ Interrupt
    \/ SetConfig
    \/ WorkStart
    \/ WorkOverview
    \/ WorkOpen
    \/ WorkDump
    \/ WorkRemove
    \/ GetOptionsCheck
    \/ GetOptionsLoad
    \/ ValidateCall
    \/ ValidateResult

Spec == Init /\ [][Next]_vars

\* the thread of the operation keeps taking its steps: a sleep ends, a request that
\* has a timeout comes back
FairSpec == Spec /\ WF_vars(Next)

(* ------------------------------ claims --------------------------------- *)

Running == imPc \in {"resolve", "attempt", "backoff"}
ResolveOver == imPc \in {"download", "done"}

AllTransient(t) == \A i \in DOMAIN t : t[i] \in Transient

\* C2: webjutter_search_request with max_retries = 3: after at most 3 transient
\* network failures the call is still trying, and a success then returns the
\* response's data; after 4 consecutive transient failures the call has raised and
\* no fifth request is sent.
C2_TransientRetryBudget ==
    (prog = "request" /\ rqPc # "idle" /\ rqMax = 3) =>
        /\ (AllTransient(rqTrace) /\ Len(rqTrace) <= 3) => (rqPc = "loop" /\ rqRetries <= rqMax)
        /\ (rqTrace # <<>> /\ rqTrace[Len(rqTrace)] = "ok") => (rqPc = "returned" /\ rqExc = "")
        /\ (Len(rqTrace) >= 4 /\ AllTransient(SubSeq(rqTrace, 1, 4)))
               => (Len(rqTrace) = 4 /\ rqPc = "raised" /\ rqExc \in {"Timeout", "ConnectionError"})

\* three transient failures, then a success that is returned
C2_Witness ==
    /\ prog = "request"
    /\ rqMax = 3
    /\ rqTrace = <<"timeout", "connerr", "timeout", "ok">>
    /\ rqPc = "returned"

\* C3: a search URL whose first response is an HTTP 4xx other than 429 gets exactly
\* one attempt in both image-URL resolution paths, and so does a call of
\* webjutter_search_request whose first response is such a status.
C3_FatalClientNotRetried ==
    /\ prog \in {"fourplebs", "desuarchive"}
           => /\ ~fatalRetried
              /\ \A u \in SearchUrls : firstResp[u] = "fatal" => attempts[u] = 1
    /\ (prog = "request" /\ rqTrace # <<>> /\ rqTrace[1] \in FatalClient) => Len(rqTrace) = 1

\* C4 (as stated): the wait before attempt k is 2^k in every retry path, capped at
\* 60 after a rate-limit response.
C4_BackoffPowerOfTwo ==
    /\ (prog \in Downloaders /\ lastWait # <<0, 0>>) => lastWait[2] = Pow2(lastWait[1])
    /\ prog = "request" => \A k \in DOMAIN rqSleeps :
           rqSleeps[k] = (IF rqTrace[k] \in RateLimited THEN Min(Pow2(k), RateLimitCap) ELSE Pow2(k))
    /\ (prog = "webjutter" /\ giWait # <<>>) =>
           giWait[2] = (IF giWait[3] \in RateLimited THEN Min(Pow2(giWait[1]), RateLimitCap)
                        ELSE Pow2(giWait[1]))

\* C4 (amended): the wait before attempt k is 2^k (2, 4, 8) in the image-URL
\* resolution retries; after an HTTP 429, webjutter_search_request and get_items wait
\* min(2^(k-1), 60); after a Timeout or ConnectionError they wait a fixed 2.
C4_BackoffAsCoded ==
    /\ (prog \in Downloaders /\ lastWait # <<0, 0>>)
           => (lastWait[1] \in 1..3 /\ lastWait[2] = Pow2(lastWait[1]))
    /\ prog = "request" => \A k \in DOMAIN rqSleeps :
           rqSleeps[k] = (IF rqTrace[k] \in RateLimited THEN Min(Pow2(k - 1), 60) ELSE 2)
    /\ (prog = "webjutter" /\ giWait # <<>>) =>
           giWait[2] = (IF giWait[3] \in RateLimited THEN Min(Pow2(giWait[1] - 1), 60) ELSE 2)

\* a call whose seventh consecutive 429 is waited out for the capped 60
C4_Witness ==
    /\ prog = "request"
    /\ Len(rqSleeps) = 7
    /\ rqSleeps[7] = 60
    /\ rqSleeps[1] = 1

\* C5: once the interrupt flag is raised the image downloader sends or queues no
\* further request: no new target, no retry of the target in hand, no re-queue.
C5_NoDispatchAfterInterrupt ==
    prog \in Downloaders => ~lateDispatch

\* C6: when a run of the image downloader has ended, normally or by cancellation in
\* the download phase, the manifest holds one entry for every resolved image URL.
C6_EveryResolvedUrlInManifest ==
    (prog \in Downloaders /\ filenames # <<>> /\ (imPc = "done" \/ (imPc = "interrupted" /\ stagingRemoved)))
        => (manifestWritten /\ DOMAIN manifest = Keys(filenames))

\* one step keeps the cap and decreases no counter
CountersStep ==
    /\ (amount > 0 => Cardinality(downloaded_files') <= amount)
    /\ Len(filenames') >= Len(filenames)
    /\ downloaded_files \subseteq downloaded_files'
    /\ Len(failures') >= Len(failures)

\* C7: with amount > 0 the number of downloaded images never exceeds amount, and no
\* step decreases the number of resolved URLs, of downloaded files or of failures.
C7_CapAndMonotoneCounters ==
    [][(prog \in Downloaders) => CountersStep]_vars

\* a run in which a download failed and another one succeeded
C7_Witness ==
    /\ prog \in Downloaders
    /\ amount > 0
    /\ failures # <<>>
    /\ Cardinality(downloaded_files) >= 1

\* C8: no two distinct resolved image URLs are given the same local filename.
C8_UniqueFilenames ==
    prog \in Downloaders =>
        \A i, j \in DOMAIN filenames :
            i # j => FilenameOf(filenames[i]) # FilenameOf(filenames[j])

\* the index of the first page, in cursor order, that is empty or carries no cursor
StopIdx == CHOOSE i \in 1..(MaxPages + 1) :
               /\ PageAt(i - 1).n = 0 \/ ~PageAt(i - 1).cur
               /\ \A j \in 1..(i - 1) : PageAt(j - 1).n # 0 /\ PageAt(j - 1).cur

RECURSIVE ConcatPages(_)
ConcatPages(k) == IF k = 0 THEN <<>> ELSE ConcatPages(k - 1) \o ItemsOf(PageAt(k - 1))

\* C9: get_items receives the pages in cursor order, none skipped and none twice,
\* never goes past the first page that is empty or has no cursor, and its records
\* are the in-order concatenation of the items of the pages received; a collection
\* that ends without a failed fetch has received every page up to that stopping page.
C9_PagesInOrderOnce ==
    prog \in Searches =>
        /\ fetched = [i \in 1..Len(fetched) |-> i]
        /\ Len(fetched) <= StopIdx
        /\ results = ConcatPages(Len(fetched))
        /\ (giPc = "returned" /\ jobFinished /\ retries <= max_retries) => Len(fetched) = StopIdx

\* pages of 3 items with cursor, 2 items with cursor, 0 items: 3 fetches and 5
\* records, with a failed fetch retried on the way
C9_Witness ==
    /\ prog = "webjutter"
    /\ pages[1] = [n |-> 3, cur |-> TRUE]
    /\ pages[2] = [n |-> 2, cur |-> TRUE]
    /\ giPc = "returned"
    /\ giWait # <<>>
    /\ Len(fetched) = 3
    /\ Len(results) = 5

\* the records accumulated after the first k pages received
Accumulated(k) == Len(ConcatPages(k))

Retryable == Transient \cup {"429"}

\* C11 (as stated): pagination is over after 3 consecutive failed page fetches: no
\* fourth request is sent for a page whose three requests all failed.
C11_AbortsAfterThree ==
    prog \in Searches => streak <= 3

\* C11 (amended): a page is asked for again after each of its first 3 consecutive
\* retryable failures and pagination is over after the 4th; the count is the count
\* of failures since the last page received, which every page received resets.
C11_AbortsAfterFour ==
    /\ prog \in Searches => streak <= 4
    /\ prog = "webjutter" =>
           /\ giPc = "loop" => retries = streak
           /\ (giPc = "loop" /\ has_more /\ streak <= 3) => LoopGuard
           /\ (giPc = "loop" /\ streak = 4) => ~LoopGuard
    /\ (prog = "webjutter_search" /\ giPc = "call" /\ rqPc # "idle") =>
           /\ streak = Len(SelectSeq(rqTrace, LAMBDA o : o # "ok"))
           /\ (streak <= 3 /\ \A i \in DOMAIN rqTrace : rqTrace[i] \in Retryable) => rqPc = "loop"
           /\ streak = 4 => rqPc = "raised"

\* a page was received, then four requests for the next page failed, the last one
\* with a 429 after the waits of three retries: pagination is over only now
C11_Witness ==
    /\ prog = "webjutter"
    /\ giPc = "loop"
    /\ Len(fetched) = 1
    /\ giWait = <<4, 8, "429">>
    /\ streak = 4

\* get_items has ended because the retries of a page fetch were used up
BudgetExhausted ==
    \/ prog = "webjutter" /\ giPc = "returned" /\ retries > max_retries
    \/ prog = "webjutter_search" /\ giPc \in {"error", "raised"} /\ rqRetries > rqMax

\* C12: when a page fetch has failed with its retry budget used up, get_items has
\* ended with a run-level error and has delivered the records of the pages received
\* before: no normal completion, no partial records dropped.
C12_BudgetFailureIsErrorWithPartials ==
    (prog \in Searches /\ BudgetExhausted) => (RunError /\ ~jobFinished /\ Delivered = results)

\* 2 * discovered * targets * n = d * (resolved * targets + downloaded * discovered):
\* the fraction n/d equals 0.5 * resolved / discovered + 0.5 * downloaded / targets
FractionIs(f, resolved, discovered, downloaded, targets) ==
    2 * discovered * targets * f[1] = f[2] * (resolved * targets + downloaded * discovered)

\* the number of download targets
NumTargets == IF prog = "legacy" THEN max_images(filenames) ELSE Len(TargetsOf(filenames))

\* C13: while the pipeline runs, the fraction last reported equals
\* 0.5 * (resolved / discovered search URLs) + 0.5 * (downloaded / download targets),
\* the second term being 0 before the download phase.
C13_ProgressFraction ==
    (prog \in Downloaders /\ imPc \in {"resolve", "attempt", "backoff", "download"}) =>
        FractionIs(progress, Len(filenames), Cardinality(SearchUrls),
                   Cardinality(downloaded_files), IF filenames = <<>> THEN 1 ELSE NumTargets)

\* the chunks of target u in its destination file, in file order
ChunksOf(u) == SelectSeq(files[FilenameOf(u)], LAMBDA c : c[1] = u)

\* the first k chunks of the payload of target u
PayloadPrefix(u, k) == [i \in 1..k |-> <<u, i>>]

\* u is the only resolved URL with its filename
OwnFile(u) == \A v \in Keys(filenames) : FilenameOf(v) = FilenameOf(u) => v = u

CompleteFindsNoStream ==
    (prog \in Sinks /\ complete) => \A u \in DOMAIN streams : streams[u].pc \notin {"reading", "writing"}

C16_EmptyDistinctFromFailed ==
    /\ (prog \in Searches /\ giPc = "returned") => fetched # <<>>
    /\ (prog \in Downloaders /\ imPc = "done" /\ resultCount = 0 /\ filenames = <<>>) => answered

\* C17: a finished run with amount > 0 has downloaded amount images, or has left no
\* candidate untried: every search URL has its outcome and every resolved image URL
\* was requested.
C17_LimitIsOnDownloads ==
    (prog \in Downloaders /\ imPc = "done" /\ amount > 0) =>
        \/ Cardinality(downloaded_files) >= amount
        \/ /\ \A u \in SearchUrls : outcomes[u] = 1
           /\ Keys(filenames) \subseteq DOMAIN metadata

\* C18: with amount = 0 after the configured maximum was read (both are 0) the run
\* does not end in an error raised by the limit handling, the resolve phase leaves no
\* search URL out, and a finished run has requested every resolved image URL.
C18_ZeroDownloadsAll ==
    (prog \in Downloaders /\ amount = 0) =>
        /\ imPc # "ZeroDivisionError"
        /\ ResolveOver => \A u \in SearchUrls : outcomes[u] = 1
        /\ (imPc = "done" /\ manifestWritten) => DOMAIN manifest = Keys(filenames)

\* C19: a run that ended by the interrupt, in the resolve phase or in the download
\* phase, has removed its staging area with everything written to it, has no request
\* outstanding, and has not finished: no manifest, no result count.
C19_InterruptCleansUp ==
    (prog \in Downloaders \cup Sinks /\ imPc = "interrupted") =>
        /\ stagingRemoved
        /\ \A f \in DOMAIN files : files[f] = <<>>
        /\ (prog # "fourplebs" => queue = {}) /\ dlQueue = {}
        /\ ~manifestWritten /\ resultCount = -1

\* C20: in the resolve phase no search URL gets its final failure on a rate limit, a
\* transient network failure or a 5xx answer while it has retries left.
C20_TransientRetriedUntilExhausted ==
    prog \in Downloaders => droppedTransient = "none"

\* C21: a 429 response is followed by another request while retries remain: in
\* webjutter_search_request whatever its body, and in the resolve phase of the
\* image downloader.
C21_Every429Retried ==
    /\ (prog = "request" /\ rqTrace # <<>> /\ rqTrace[Len(rqTrace)] \in RateLimited /\ Len(rqTrace) <= rqMax)
           => rqPc = "loop"
    /\ prog \in {"fourplebs", "desuarchive"} => droppedTransient # "429"

\* C22: a response that is not in the expected shape never ends the run: the resolve
\* phase is not left by an exception out of the parsing of a response.
C22_ParseErrorEndsOnlyItsTarget ==
    prog \in Downloaders => imPc # "IndexError"

\* C23: while a retried search URL waits out its backoff and the request of another
\* search URL is in flight, the result of that other request can be handled.
C23_BackoffDoesNotBlockOthers ==
    /\ (prog = "desuarchive" /\ imPc = "backoff" /\ queue # {}) => ENABLED ProxiedResult
    /\ (prog = "legacy" /\ imPc = "backoff" /\ queue # {}) => ENABLED LegacyResult

\* C24: the files of the staging area are changed only by the consumer of the
\* results: no step of a response hook, which runs with the request, changes them.
C24_OnlyConsumerTouchesStaging ==
    [][(prog \in Sinks /\ files' # files) => streams' = streams]_vars

\* C25: a write that follows a passed flag check raises nothing in the hook, also
\* when the destination file or the staging directory was removed in between.
C25_LateWriteIsSwallowed ==
    prog \in Sinks => \A u \in DOMAIN streams : streams[u].why # "FileNotFoundError"

Terminated ==
    CASE prog = "request" -> rqPc \in {"returned", "raised"}
      [] prog \in Searches -> giPc \notin {"loop", "call", "hung"}
      [] OTHER -> imPc \notin {"resolve", "attempt", "backoff", "download"}

\* C27: every operation terminates, also when the server accepts the connection of a
\* request and never answers it.
C27_EveryOperationTerminates ==
    <>Terminated

\* C28: every progress value get_items reports lies in [0, 1].
C28_PaginationProgressInUnitInterval ==
    (prog \in Searches /\ giProgress # <<>>) => (0 <= giProgress[1] /\ giProgress[1] <= giProgress[2])

\* C29: with the interrupt flag raised, get_items sends no request to the search
\* endpoint, except the first request of a page fetch whose poll came before the
\* flag: no retry request inside a page fetch is sent with the flag raised.
C29_NoRequestOnceInterrupted ==
    [][/\ (prog = "webjutter" /\ interrupted) => (fetched' = fetched /\ streak' = streak /\ giPc' # "hung")
       /\ (prog = "webjutter_search" /\ interrupted /\ Len(rqTrace') > Len(rqTrace)) => rqTrace = <<>>]_vars

\* C30: a search URL all of whose responses so far carried "limit exceeded" in a 200
\* body has had one retry counted for each of its first 3 requests and none more, is
\* given up at its 4th request, and has resolved no image URL.
C30_BodyRateLimitUsesRetries ==
    prog \in {"fourplebs", "desuarchive"} =>
        /\ \A u \in SearchUrls : (limitOnly[u] /\ attempts[u] > 0) =>
               /\ attempts[u] <= MaxImageRetries + 1
               /\ retry_counts[u] = Min(attempts[u], MaxImageRetries)
               /\ outcomes[u] = (IF attempts[u] = MaxImageRetries + 1 THEN 1 ELSE 0)
        /\ Len(filenames) <= Cardinality({u \in SearchUrls : outcomes[u] = 1 /\ ~limitOnly[u]})

\* a search URL was answered "limit exceeded" four times and is given up
C30_Witness ==
    /\ prog \in {"fourplebs", "desuarchive"}
    /\ \E u \in SearchUrls :
        /\ limitOnly[u]
        /\ attempts[u] = 4
        /\ retry_counts[u] = 3
        /\ outcomes[u] = 1
        /\ filenames = <<>>

\* the fraction p is at most the fraction q (denominators are positive)
FracLeq(p, q) == p[1] * q[2] <= q[1] * p[2]

\* every step of an image-download run leaves the progress value in [0, 1] and not
\* below the value before; a value reported in the resolve phase is at most 1/2, a
\* value reported in the download phase is at least 1/2; writing the archive reports 1
ProgressStep ==
    (prog \in Downloaders \cup Sinks) =>
        /\ progress'[2] > 0 /\ 0 <= progress'[1] /\ progress'[1] <= progress'[2]
        /\ FracLeq(progress, progress')
        /\ (imPc \in {"resolve", "attempt"} /\ progress' # progress) => 2 * progress'[1] <= progress'[2]
        /\ (imPc = "download" /\ progress' # progress) => 2 * progress'[1] >= progress'[2]
        /\ (manifestWritten' /\ ~manifestWritten) => progress' = <<1, 1>>

ProgressSteps == [][ProgressStep]_vars

\* C31 (as stated): the progress values of an image-download run never decrease and
\* lie in [0, 1], at most 1/2 in the resolve phase and at least 1/2 in the download
\* phase, and the last value of a run that finishes is 1.
C31_ProgressEndsAtOne ==
    ProgressSteps /\ [](((prog \in Downloaders \cup Sinks) /\ imPc = "done") => progress = <<1, 1>>)

\* C31 (amended): the same, with the last value being 1 in every run that writes its
\* archive; a run that finishes without archive keeps the last value of its
\* resolve phase.
C31_ProgressEndsAtOneWithArchive ==
    ProgressSteps /\ [](((prog \in Downloaders \cup Sinks) /\ imPc = "done") =>
                            /\ manifestWritten => progress = <<1, 1>>
                            /\ ~manifestWritten => (filenames = <<>> /\ 2 * progress[1] <= progress[2]))

\* a run has resolved two image URLs, downloaded one of them and written its archive
C31_Witness ==
    /\ prog \in Downloaders
    /\ imPc = "done"
    /\ manifestWritten
    /\ Len(filenames) = 2
    /\ Cardinality(downloaded_files) = 1
    /\ progress = <<1, 1>>

\* C32: when the archive is written, the count reported is the number of entries
\* of .metadata.json with success = true, and the staging area holds the payload of
\* each of them.
C32_SuccessesHaveTheirFiles ==
    (prog \in Sinks /\ manifestWritten) =>
        /\ resultCount = Cardinality(Successes(manifest))
        /\ \A u \in Successes(manifest) : ChunksOf(u) = PayloadPrefix(u, PayloadChunks)

SubmittedForDownload ==
    IF prog \in {"legacy", "legacy_sink"} THEN Keys(filenames) ELSE Keys(TargetsOf(filenames))

C35_RequestIsBoundedAndReturnsOnlyOk ==
    (prog \in {"request", "webjutter_search"} /\ rqPc # "idle") =>
        /\ rqMax >= 1
        /\ Len(rqTrace) <= rqMax + 1
        /\ rqPc = "loop" => (Len(rqTrace) <= rqMax /\ rqRetries <= rqMax /\ ENABLED RequestAttempt)
        /\ rqPc = "returned" => rqTrace[Len(rqTrace)] = "ok"
        /\ \A i \in DOMAIN rqTrace : i < Len(rqTrace) => rqTrace[i] \in Transient \cup {"429"}

\* timeouts, connection errors and 429 responses mixed: the call raises after its
\* 4th request
C35_Witness ==
    /\ prog = "request"
    /\ rqMax = 3
    /\ rqTrace = <<"timeout", "429", "connerr", "429">>
    /\ rqPc = "raised"


\* a work() cycle has run to its end
CycleDone == prog = "updater" /\ upPc = "idle" /\ upOverview # "none"

\* C36: after every work() cycle webjutter_datasources.json exists if and only if the
\* settings were all set and the overview request returned 200 with a non-empty JSON
\* body; the file then holds the whole dump; a file of an earlier cycle does not
\* survive a cycle that found Webjutter unconfigured or unreachable.
C36_FileExistsIffOverviewStored ==
    CycleDone =>
        /\ dsFile \in {"absent", "full"}
        /\ dsFile = "full" <=> (upConf /\ upOverview = "ok")
        /\ (~upConf \/ upOverview \in {"connerr", "http"}) => dsFile = "absent"

C36_Witness ==
    CycleDone /\ upOld /\ upConf /\ upOverview = "connerr" /\ dsFile = "absent"

\* C37: a get_options call that runs while work() runs returns an error option or the
\* full options and never raises.
C37_GetOptionsNeverRaises ==
    (prog = "updater" /\ goPc = "done") =>
        goResult \in {"error_not_configured", "error_not_reachable", "error_not_readable", "options"}

\* the test search of validate_query succeeded and reported the total t
SearchSucceeded == vqResp \in TestResponses /\ vqResp # <<>>

\* C38: validate_query returns the query exactly when text and datasource are
\* non-empty, the test search succeeded with at least 1 hit and the total is at most
\* 50,000 or the query carries frontend-confirm; otherwise it raises
\* QueryParametersException, or QueryNeedsExplicitConfirmationException exactly for
\* more than 50,000 unconfirmed hits; an error of the test search is raised as
\* QueryParametersException.
C38_ValidateReturnsOrRaisesQueryError ==
    (prog = "validate" /\ vqPc = "done") =>
        /\ vqResult = "returned" <=>
              /\ vqIn.q /\ vqIn.ds
              /\ SearchSucceeded /\ vqResp[1] >= 1
              /\ vqResp[1] <= ConfirmThreshold \/ vqIn.confirm
        /\ vqResult # "returned" =>
              vqResult \in {"QueryParametersException", "QueryNeedsExplicitConfirmationException"}
        /\ vqResult = "QueryNeedsExplicitConfirmationException" <=>
              (SearchSucceeded /\ vqResp[1] > ConfirmThreshold /\ ~vqIn.confirm)
        /\ rqPc = "raised" => vqResult = "QueryParametersException"

======================================================================
